---- MODULE Spec2Model ----
(***************************************************************************)
(* Model of the drone photo-plan computation:                               *)
(*   src/src/camera_utils.py     pinhole camera geometry                    *)
(*   src/src/plan_computation.py spacing, capture speed, lawn-mower grid    *)
(*   src/src/data_model.py       Camera, DatasetSpec, Waypoint              *)
(*   src/src/visualization.py    the consumer of the plan                   *)
(*                                                                          *)
(* The program computes with Python floats (IEEE-754 binary64).  They are   *)
(* modelled bit-exactly: a finite float is sign * m * 2^e with m either 0   *)
(* or a 53-bit significand, every operation computes the exact result and   *)
(* rounds it to nearest, ties to even.  Significands do not fit TLC's       *)
(* 32-bit integers, so they are kept as little-endian sequences of 15-bit   *)
(* limbs.  The exponent is unbounded (no float of the model comes near the  *)
(* subnormal or overflow range).                                            *)
(*                                                                          *)
(* An intermediate value used more than once is passed to a helper operator *)
(* as an argument rather than named in a LET: TLC computes an argument      *)
(* once.                                                                    *)
(***************************************************************************)
EXTENDS Integers, Sequences, FiniteSets

VARIABLES camera, dataset_spec, photo_plan, figure, point, projection

vars == <<camera, dataset_spec, photo_plan, figure, point, projection>>

(***************************************************************************)
(* Natural numbers of arbitrary size: little-endian limbs, no leading zero *)
(* limb, zero is << >>.                                                     *)
(***************************************************************************)
LimbBits == 15

Base == 2^LimbBits

RECURSIVE BNorm(_)
BNorm(a) ==
    IF a = << >> THEN a
    ELSE IF a[Len(a)] = 0 THEN BNorm(SubSeq(a, 1, Len(a) - 1)) ELSE a

RECURSIVE BFromInt(_)
BFromInt(n) == IF n = 0 THEN << >> ELSE <<n % Base>> \o BFromInt(n \div Base)

RECURSIVE BToInt(_)
BToInt(a) == IF a = << >> THEN 0 ELSE a[1] + Base * BToInt(Tail(a))

BHead(a) == IF a = << >> THEN 0 ELSE a[1]

BTail(a) == IF a = << >> THEN a ELSE Tail(a)

RECURSIVE BAddC(_, _, _)
BAddC(a, b, c) ==
    IF a = << >> /\ b = << >>
    THEN IF c = 0 THEN << >> ELSE <<c>>
    ELSE LET x == BHead(a) + BHead(b) + c
         IN  <<x % Base>> \o BAddC(BTail(a), BTail(b), x \div Base)

BAdd(a, b) == BAddC(a, b, 0)

\* a - b - borrow for a >= b + borrow; limbs not yet normalised
RECURSIVE BSubB(_, _, _)
BSubB(a, b, borrow) ==
    IF a = << >> THEN << >>
    ELSE LET x == a[1] - BHead(b) - borrow
         IN  IF x < 0
             THEN <<x + Base>> \o BSubB(Tail(a), BTail(b), 1)
             ELSE <<x>> \o BSubB(Tail(a), BTail(b), 0)

BSub(a, b) == BNorm(BSubB(a, b, 0))

\* -1, 0, 1 as a < b, a = b, a > b
RECURSIVE BCmpFrom(_, _, _)
BCmpFrom(a, b, i) ==
    IF i = 0 THEN 0
    ELSE IF a[i] < b[i] THEN -1
    ELSE IF a[i] > b[i] THEN 1
    ELSE BCmpFrom(a, b, i - 1)

BCmp(a, b) ==
    IF Len(a) < Len(b) THEN -1
    ELSE IF Len(a) > Len(b) THEN 1
    ELSE BCmpFrom(a, b, Len(a))

\* a * k + c for 0 <= k, c < Base
RECURSIVE BMulSmall(_, _, _)
BMulSmall(a, k, c) ==
    IF a = << >>
    THEN IF c = 0 THEN << >> ELSE <<c>>
    ELSE LET x == a[1] * k + c
         IN  <<x % Base>> \o BMulSmall(Tail(a), k, x \div Base)

RECURSIVE BShiftLimbs(_, _)
BShiftLimbs(a, n) ==
    IF a = << >> \/ n = 0 THEN a ELSE <<0>> \o BShiftLimbs(a, n - 1)

RECURSIVE BMul(_, _)
BMul(a, b) ==
    IF b = << >> \/ a = << >> THEN << >>
    ELSE BAdd(BNorm(BMulSmall(a, b[1], 0)), BShiftLimbs(BMul(a, Tail(b)), 1))

\* a * 2^n
BShl(a, n) == BShiftLimbs(BMulSmall(a, 2^(n % LimbBits), 0), n \div LimbBits)

\* one more (lower) limb divided by d, after the higher limbs gave hi
BDivSmallStep(hi, limb, d) ==
    [q |-> <<(hi.r * Base + limb) \div d>> \o hi.q,
     r |-> (hi.r * Base + limb) % d]

\* quotient limbs and remainder of a by d, 0 < d < Base
RECURSIVE BDivSmall(_, _)
BDivSmall(a, d) ==
    IF a = << >> THEN [q |-> << >>, r |-> 0]
    ELSE BDivSmallStep(BDivSmall(Tail(a), d), a[1], d)

\* floor(a / 2^n)
BShr(a, n) ==
    IF n \div LimbBits >= Len(a) THEN << >>
    ELSE BNorm(BDivSmall(SubSeq(a, n \div LimbBits + 1, Len(a)),
                         2^(n % LimbBits)).q)

RECURSIVE IntBitLen(_)
IntBitLen(n) == IF n = 0 THEN 0 ELSE 1 + IntBitLen(n \div 2)

BBitLen(a) ==
    IF a = << >> THEN 0 ELSE LimbBits * (Len(a) - 1) + IntBitLen(a[Len(a)])

BIsOdd(a) == a # << >> /\ a[1] % 2 = 1

\* n steps of binary long division of r by d (r < 2d): the quotient bits
\* gathered in q, and the last remainder (Len(q) >= 0 only makes TLC compute
\* q at every step)
RECURSIVE BDivBits(_, _, _, _)
BDivBits(r, d, n, q) ==
    IF n = 0 THEN [q |-> q, r |-> r]
    ELSE IF Len(q) >= 0 /\ BCmp(r, d) >= 0
         THEN BDivBits(BMulSmall(BSub(r, d), 2, 0), d, n - 1, BAddC(q, q, 1))
         ELSE BDivBits(BMulSmall(r, 2, 0), d, n - 1, BAdd(q, q))

(***************************************************************************)
(* binary64 values                                                          *)
(***************************************************************************)
\* bits of a binary64 significand
Precision == 53

Finite(s, m, e) == [k |-> "fin", s |-> s, m |-> m, e |-> e]

Zero == Finite(0, << >>, 0)

Inf(s) == [k |-> "inf", s |-> s, m |-> << >>, e |-> 0]

NaN == [k |-> "nan", s |-> 0, m |-> << >>, e |-> 0]

IsFinite(a) == a.k = "fin"

IsZero(a) == a.k = "fin" /\ a.m = << >>

\* q * 2^e, or half of it times 2^(e + 1) when q has grown to 54 bits
Renormalise(s, q, e) ==
    IF BBitLen(q) > Precision
    THEN Finite(s, BShr(q, 1), e + 1)
    ELSE Finite(s, q, e)

\* q rounded up or not: c is -1, 0, 1 as the bits cut off are below, at or
\* above one half of q's last place
RoundUp(s, q, c, e, sticky) ==
    Renormalise(s,
                IF c > 0 \/ (c = 0 /\ (sticky \/ BIsOdd(q)))
                THEN BAdd(q, <<1>>) ELSE q,
                e)

\* n cut to q = floor(n / 2^sh), rounded to nearest, ties to even
RoundQuotient(s, n, q, e, sticky, sh) ==
    RoundUp(s, q, BCmp(BSub(n, BShl(q, sh)), BShl(<<1>>, sh - 1)), e + sh,
            sticky)

\* n of bits bits, rounded to Precision bits
RoundBits(s, n, e, sticky, bits) ==
    IF bits <= Precision
    THEN Finite(s, BShl(n, Precision - bits), e - (Precision - bits))
    ELSE RoundQuotient(s, n, BShr(n, bits - Precision), e, sticky,
                       bits - Precision)

\* the float nearest to (-1)^s * (n + t) * 2^e, ties to even, where t is 0, or
\* some value strictly between 0 and 1 when sticky (n then holds more than
\* Precision + 1 bits)
Round(s, n, e, sticky) ==
    IF n = << >> THEN Zero ELSE RoundBits(s, n, e, sticky, BBitLen(n))

\* float(n) for a Python int n
FromInt(n) ==
    IF n < 0 THEN Round(1, BFromInt(-n), 0, FALSE)
    ELSE Round(0, BFromInt(n), 0, FALSE)

\* -1, 0, 1 as |a| < |b|, |a| = |b|, |a| > |b| (finite a, b)
MagCmp(a, b) ==
    IF a.m = << >> THEN (IF b.m = << >> THEN 0 ELSE -1)
    ELSE IF b.m = << >> THEN 1
    ELSE IF a.e < b.e THEN -1
    ELSE IF a.e > b.e THEN 1
    ELSE BCmp(a.m, b.m)

\* -1, 0, 1 as a < b, a == b, a > b (finite a, b)
FCmp(a, b) ==
    IF a.s = 0 /\ b.s = 0 THEN MagCmp(a, b)
    ELSE IF a.s = 1 /\ b.s = 1 THEN MagCmp(b, a)
    ELSE IF a.m = << >> /\ b.m = << >> THEN 0
    ELSE IF a.s = 1 THEN -1 ELSE 1

FLt(a, b) == FCmp(a, b) < 0

FLe(a, b) == FCmp(a, b) <= 0

FNeg(a) == IF IsZero(a) \/ a.k = "nan" THEN a ELSE [a EXCEPT !.s = 1 - a.s]

\* (-1)^sa * ma * 2^e + (-1)^sb * mb * 2^e, rounded
AddAligned(sa, ma, sb, mb, e) ==
    IF sa = sb THEN Round(sa, BAdd(ma, mb), e, FALSE)
    ELSE IF BCmp(ma, mb) >= 0 THEN Round(sa, BSub(ma, mb), e, FALSE)
    ELSE Round(sb, BSub(mb, ma), e, FALSE)

\* a + b of two finite non-zero floats, both brought to the exponent e
AddAt(a, b, e) ==
    AddAligned(a.s, BShl(a.m, a.e - e), b.s, BShl(b.m, b.e - e), e)

\* a + b of two finite floats
FAddFinite(a, b) ==
    IF a.m = << >> THEN b
    ELSE IF b.m = << >> THEN a
    ELSE AddAt(a, b, IF a.e < b.e THEN a.e ELSE b.e)

FAdd(a, b) ==
    IF a.k = "nan" \/ b.k = "nan" THEN NaN
    ELSE IF a.k = "inf" /\ b.k = "inf" THEN (IF a.s = b.s THEN a ELSE NaN)
    ELSE IF a.k = "inf" THEN a
    ELSE IF b.k = "inf" THEN b
    ELSE FAddFinite(a, b)

FSub(a, b) == FAdd(a, FNeg(b))

FMul(a, b) ==
    IF a.k = "nan" \/ b.k = "nan" THEN NaN
    ELSE IF a.k = "inf" \/ b.k = "inf"
         THEN (IF IsZero(a) \/ IsZero(b) THEN NaN ELSE Inf((a.s + b.s) % 2))
    ELSE Round((a.s + b.s) % 2, BMul(a.m, b.m), a.e + b.e, FALSE)

\* the quotient bits d.q, scaled by 2^e, rounded; inexact if a remainder is left
RoundDivision(s, d, e) == Round(s, d.q, e, d.r # << >>)

\* a / b of two finite floats, b # 0
FDivFinite(a, b) ==
    IF a.m = << >> THEN Zero
    ELSE RoundDivision((a.s + b.s) % 2,
                       BDivBits(a.m, b.m, Precision + 3, << >>),
                       a.e - b.e - (Precision + 2))

\* a / b as numpy's float64 computes it: a zero divisor gives an infinity or
\* a NaN (with a RuntimeWarning), never an exception
FDiv(a, b) ==
    IF a.k = "nan" \/ b.k = "nan" THEN NaN
    ELSE IF a.k = "inf" THEN (IF b.k = "inf" THEN NaN ELSE Inf((a.s + b.s) % 2))
    ELSE IF b.k = "inf" THEN Zero
    ELSE IF IsZero(b) THEN (IF IsZero(a) THEN NaN ELSE Inf((a.s + b.s) % 2))
    ELSE FDivFinite(a, b)

\* the float a Python literal p/q denotes (p / q correctly rounded)
FromRatio(p, q) == FDiv(FromInt(p), FromInt(q))

\* ceil of (-1)^s * m * 2^(-sh), sh > 0, where q = floor(m / 2^sh)
CeilFraction(s, m, sh, q) ==
    IF s = 1 THEN -BToInt(q)
    ELSE IF BShl(q, sh) = m THEN BToInt(q) ELSE BToInt(q) + 1

\* math.ceil of a finite float, as an integer
Ceil(a) ==
    IF a.m = << >> THEN 0
    ELSE IF a.e >= 0
         THEN (IF a.s = 0 THEN 1 ELSE -1) * BToInt(BShl(a.m, a.e))
         ELSE CeilFraction(a.s, a.m, -a.e, BShr(a.m, -a.e))

FMin(a, b) == IF FLt(b, a) THEN b ELSE a


(***************************************************************************)
(* Inputs                                                                   *)
(***************************************************************************)
\* largest scan_dimension_x, scan_dimension_y of the small scan areas
MaxScanX == 4

MaxScanY == 3

\* largest |X|, |Y| and largest Z of the projected world points
MaxCoord == 2

MaxDepth == 3

\* Camera(fx, fy, cx, cy, sensor_size_x_mm, sensor_size_y_mm, image_size_x,
\* image_size_y)
Camera(fx, fy, cx, cy, sx, sy, ix, iy) ==
    [fx |-> FromInt(fx), fy |-> FromInt(fy), cx |-> FromInt(cx),
     cy |-> FromInt(cy), sensor_size_x_mm |-> FromInt(sx),
     sensor_size_y_mm |-> FromInt(sy), image_size_x |-> ix, image_size_y |-> iy]

Cameras ==
    {Camera(1000, 1000, 500, 500, 36, 24, 1920, 1080),
     Camera(1000, 800, 500, 500, 36, 24, 1920, 1080)}

\* DatasetSpec(overlap, sidelap, height, scan_dimension_x, scan_dimension_y,
\* exposure_time_ms)
DatasetSpec(overlap, sidelap, height, sdx, sdy, exposure) ==
    [overlap |-> overlap, sidelap |-> sidelap, height |-> FromInt(height),
     scan_dimension_x |-> sdx, scan_dimension_y |-> sdy,
     exposure_time_ms |-> exposure]

\* overlap and sidelap: the valid 0 and 1/2, the invalid 1 and 3/2
Ratios == {FromInt(0), FromRatio(1, 2), FromInt(1), FromRatio(3, 2)}

\* every small scan area flown at 1 m, 2 ms of exposure
SmallSpecs ==
    {DatasetSpec(ov, sl, 1, sdx, sdy, 2) :
        ov \in Ratios, sl \in Ratios, sdx \in 0 .. MaxScanX,
        sdy \in 0 .. MaxScanY}

\* larger scan areas flown at 10 m and 125 m
LargeSpecs ==
    {DatasetSpec(FromRatio(3, 4), FromInt(0), 10, 29, 0, 2),
     DatasetSpec(FromRatio(3, 4), FromInt(0), 10, 29, 3, 2),
     DatasetSpec(FromRatio(77, 100), FromInt(0), 125, 276, 0, 4),
     DatasetSpec(FromRatio(77, 100), FromRatio(77, 100), 125, 276, 40, 4)}

DatasetSpecs == SmallSpecs \cup LargeSpecs

Points ==
    [X : (-MaxCoord) .. MaxCoord, Y : (-MaxCoord) .. MaxCoord, Z : 0 .. MaxDepth]

(***************************************************************************)
(* camera_utils.py                                                          *)
(***************************************************************************)
compute_focal_length_in_mm(cam) ==
    <<FMul(cam.fx, FDiv(cam.sensor_size_x_mm, FromInt(cam.image_size_x))),
      FMul(cam.fy, FDiv(cam.sensor_size_y_mm, FromInt(cam.image_size_y)))>>

\* every division is numpy's: Z = 0 gives an infinity or a NaN and the
\* function returns it
project_world_point_to_image(cam, p) ==
    [status |-> "returned",
     value |->
        <<FAdd(FMul(cam.fx, FDiv(FromInt(p.X), FromInt(p.Z))), cam.cx),
          FAdd(FMul(cam.fy, FDiv(FromInt(p.Y), FromInt(p.Z))), cam.cy)>>]

\* the footprint in m, from the distance and the focal lengths in mm
footprint_on_surface(cam, distance_mm, focal_length) ==
    <<FDiv(FDiv(FMul(cam.sensor_size_x_mm, distance_mm), focal_length[1]),
           FromInt(1000)),
      FDiv(FDiv(FMul(cam.sensor_size_y_mm, distance_mm), focal_length[2]),
           FromInt(1000))>>

compute_image_footprint_on_surface(cam, distance_from_surface) ==
    footprint_on_surface(cam, FMul(distance_from_surface, FromInt(1000)),
                         compute_focal_length_in_mm(cam))

compute_ground_sampling_distance(cam, distance_from_surface) ==
    FDiv(distance_from_surface, FMin(cam.fx, cam.fy))

(***************************************************************************)
(* plan_computation.py                                                      *)
(***************************************************************************)
\* distance_x = footprint_x * (1 - overlap), distance_y likewise with sidelap
distance_for_footprint(footprint, overlap, sidelap) ==
    <<FMul(footprint[1], FSub(FromInt(1), overlap)),
      FMul(footprint[2], FSub(FromInt(1), sidelap))>>

compute_distance_between_images(cam, spec) ==
    distance_for_footprint(
        compute_image_footprint_on_surface(cam, spec.height),
        spec.overlap, spec.sidelap)

compute_speed_during_photo_capture(cam, spec, allowed_movement_px) ==
    FDiv(FMul(compute_ground_sampling_distance(cam, spec.height),
              FromInt(allowed_movement_px)),
         FDiv(FromInt(spec.exposure_time_ms), FromInt(1000)))

\* scan_dim / ideal_distance, the argument of math.ceil
IntervalRatio(scan_dim, ideal_distance) == FDiv(FromInt(scan_dim), ideal_distance)

\* num_intervals with the zero test lost: an interval, hence two lines, on an
\* axis of dimension 0
num_intervals_no_zero_case(scan_dim, ideal_distance) ==
    IF scan_dim = 0 THEN 1 ELSE Ceil(IntervalRatio(scan_dim, ideal_distance))

\* 0 if scan_dim == 0 else math.ceil(scan_dim / ideal_distance)
num_intervals(scan_dim, ideal_distance) ==
    IF scan_dim = 0 THEN 0 ELSE Ceil(IntervalRatio(scan_dim, ideal_distance))

\* math.ceil raises OverflowError on an infinity (ideal_distance == 0.0)
CeilRaises(scan_dim, ideal_distance) ==
    scan_dim # 0 /\ ~IsFinite(IntervalRatio(scan_dim, ideal_distance))

\* num_lines with the "+ 1" lost: as many lines as intervals
num_lines_without_last(scan_dim, ideal_distance) ==
    num_intervals(scan_dim, ideal_distance)

\* num_cols, num_rows
num_lines(scan_dim, ideal_distance) == num_intervals(scan_dim, ideal_distance) + 1

\* 0.0, or scan_dim / (lines - 1) if lines > 1
actual_distance(scan_dim, lines) ==
    IF lines > 1 THEN FDiv(FromInt(scan_dim), FromInt(lines - 1)) ELSE Zero

\* x_coord with the odd branch lost: every row flown left to right
x_coord_left_to_right(r, c, scan_dim_x, actual_distance_x) ==
    FMul(FromInt(c), actual_distance_x)

\* the c-th x of row r, c in 0 .. num_cols - 1
x_coord(r, c, scan_dim_x, actual_distance_x) ==
    IF r % 2 = 0
    THEN FMul(FromInt(c), actual_distance_x)
    ELSE FSub(FromInt(scan_dim_x), FMul(FromInt(c), actual_distance_x))

y_coord(r, actual_distance_y) == FMul(FromInt(r), actual_distance_y)

\* Waypoint with z and speed exchanged
Waypoint_z_for_speed(x, y, z, speed) == [x |-> x, y |-> y, z |-> speed, speed |-> z]

Waypoint(x, y, z, speed) == [x |-> x, y |-> y, z |-> z, speed |-> speed]

\* the waypoints of row r, in the order they are appended
RowWaypoints(r, num_cols, scan_dim_x, adx, y, height, capture_speed) ==
    [i \in 1 .. num_cols |->
        Waypoint(x_coord(r, i - 1, scan_dim_x, adx), y, height, capture_speed)]

\* rows r, r + 1, ..., num_rows - 1
RECURSIVE PlanRows(_, _, _, _, _, _, _, _)
PlanRows(r, num_rows, num_cols, scan_dim_x, adx, ady, height, capture_speed) ==
    IF r >= num_rows THEN << >>
    ELSE RowWaypoints(r, num_cols, scan_dim_x, adx, y_coord(r, ady), height,
                      capture_speed)
         \o PlanRows(r + 1, num_rows, num_cols, scan_dim_x, adx, ady, height,
                     capture_speed)

\* the waypoint loop over a grid of num_rows lines of num_cols waypoints
plan_on_grid(spec, num_cols, num_rows, capture_speed) ==
    [status |-> "returned", error |-> "",
     plan |-> PlanRows(0, num_rows, num_cols, spec.scan_dimension_x,
                       actual_distance(spec.scan_dimension_x, num_cols),
                       actual_distance(spec.scan_dimension_y, num_rows),
                       spec.height, capture_speed)]

\* the function after its two calls: the line counts, then the loop
plan_for_distances(spec, ideal, capture_speed) ==
    IF \/ CeilRaises(spec.scan_dimension_x, ideal[1])
       \/ CeilRaises(spec.scan_dimension_y, ideal[2])
    THEN [status |-> "raised", error |-> "OverflowError", plan |-> << >>]
    ELSE plan_on_grid(spec, num_lines(spec.scan_dimension_x, ideal[1]),
                      num_lines(spec.scan_dimension_y, ideal[2]), capture_speed)

generate_photo_plan_on_grid(cam, spec) ==
    plan_for_distances(spec, compute_distance_between_images(cam, spec),
                       compute_speed_during_photo_capture(cam, spec, 1))

(***************************************************************************)
(* visualization.py                                                         *)
(***************************************************************************)
\* what plot_photo_plan reads from the plan: every x and y, z and speed of
\* the first waypoint; photo_plans[0] raises IndexError on an empty plan
plot_photo_plan(photo_plans) ==
    IF photo_plans = << >>
    THEN [status |-> "raised", error |-> "IndexError"]
    ELSE [status |-> "returned",
          x_coords |-> [i \in 1 .. Len(photo_plans) |-> photo_plans[i].x],
          y_coords |-> [i \in 1 .. Len(photo_plans) |-> photo_plans[i].y],
          z_coord |-> photo_plans[1].z,
          capture_speed |-> photo_plans[1].speed]

(***************************************************************************)
(* State machine: the inputs are drawn in Init, one action per call.        *)
(***************************************************************************)
NotCalled == [status |-> "not called"]

NoPoint == [X |-> 0, Y |-> 0, Z |-> 1]

NoSpec == DatasetSpec(Zero, Zero, 10, 0, 0, 2)

Init ==
    /\ camera \in Cameras
    /\ dataset_spec \in DatasetSpecs
    /\ point = NoPoint
    /\ photo_plan = NotCalled
    /\ figure = NotCalled
    /\ projection = NotCalled

GeneratePlan ==
    /\ photo_plan = NotCalled
    /\ photo_plan' = generate_photo_plan_on_grid(camera, dataset_spec)
    /\ UNCHANGED <<camera, dataset_spec, point, figure, projection>>

PlotPlan ==
    /\ photo_plan.status = "returned"
    /\ figure = NotCalled
    /\ figure' = plot_photo_plan(photo_plan.plan)
    /\ UNCHANGED <<camera, dataset_spec, point, photo_plan, projection>>

Next == GeneratePlan \/ PlotPlan

Spec == Init /\ [][Next]_vars

ProjectInit ==
    /\ camera \in Cameras
    /\ dataset_spec = NoSpec
    /\ point \in Points
    /\ photo_plan = NotCalled
    /\ figure = NotCalled
    /\ projection = NotCalled

ProjectPoint ==
    /\ projection = NotCalled
    /\ projection' = project_world_point_to_image(camera, point)
    /\ UNCHANGED <<camera, dataset_spec, point, photo_plan, figure>>

ProjectSpec == ProjectInit /\ [][ProjectPoint]_vars

(***************************************************************************)
(* Properties.  Every property of a plan is about the state after          *)
(* GeneratePlan, where photo_plan holds what the call returned.             *)
(***************************************************************************)
Returned == photo_plan.status = "returned"

Plan == photo_plan.plan

FEq(v, w) == FCmp(v, w) = 0

\* a ratio in [0, 1)
ValidRatio(r) == FLe(Zero, r) /\ FLt(r, FromInt(1))

\* overlap and sidelap both in [0, 1): all the ideal spacings are positive
ValidInput == ValidRatio(dataset_spec.overlap) /\ ValidRatio(dataset_spec.sidelap)

ScanX == dataset_spec.scan_dimension_x

ScanY == dataset_spec.scan_dimension_y

IdealDistance == compute_distance_between_images(camera, dataset_spec)

\* ix and iy: 0 for a zero dimension, else ceil(scan_dimension / ideal_distance)
IntervalsX == IF ScanX = 0 THEN 0 ELSE Ceil(FDiv(FromInt(ScanX), IdealDistance[1]))

IntervalsY == IF ScanY = 0 THEN 0 ELSE Ceil(FDiv(FromInt(ScanY), IdealDistance[2]))

Cols == IntervalsX + 1

Rows == IntervalsY + 1

\* the 0-based row of the i-th waypoint, with rows of cols waypoints
RowOf(i, cols) == (i - 1) \div cols

\* the 0-based place of the i-th waypoint in its row
ColOf(i, cols) == (i - 1) % cols

\* plan is rows rows of cols waypoints, a row being the waypoints of one y
RowsOfWaypoints(plan, cols, rows) ==
    /\ Len(plan) = cols * rows
    /\ \A i, j \in 1 .. Len(plan) :
          FEq(plan[i].y, plan[j].y) <=> (RowOf(i, cols) = RowOf(j, cols))

\* C1: for overlap and sidelap in [0, 1) and scan dimensions >= 0 the plan
\* holds exactly (ix + 1) * (iy + 1) waypoints, in iy + 1 consecutive rows of
\* ix + 1 waypoints: two waypoints have the same y exactly when they lie in
\* the same block of ix + 1.
C1_WaypointCount ==
    (Returned /\ ValidInput) =>
        RowsOfWaypoints(Plan, IntervalsX + 1, IntervalsY + 1)

\* a valid 4 x 3 scan planned as 4 rows of 4 waypoints
C1_Witness ==
    /\ Returned /\ ValidInput
    /\ ScanX = 4 /\ ScanY = 3
    /\ IntervalsX = 3 /\ IntervalsY = 3
    /\ Len(Plan) = 16

\* every waypoint of plan inside [0, far_x] x [0, far_y], the largest x is
\* far_x and the last y is far_y
WithinScanArea(plan, far_x, far_y) ==
    /\ \A i \in 1 .. Len(plan) :
          /\ FLe(Zero, plan[i].x) /\ FLe(plan[i].x, far_x)
          /\ FLe(Zero, plan[i].y) /\ FLe(plan[i].y, far_y)
    /\ \E i \in 1 .. Len(plan) : FEq(plan[i].x, far_x)
    /\ FEq(plan[Len(plan)].y, far_y)

\* C2: for every valid input every waypoint has 0 <= x <= scan_dimension_x
\* and 0 <= y <= scan_dimension_y, the largest x equals scan_dimension_x
\* exactly and the y of the last row equals scan_dimension_y exactly.
C2_WithinScanArea ==
    (Returned /\ ValidInput) =>
        WithinScanArea(Plan, FromInt(ScanX), FromInt(ScanY))

\* where a row of plan ends the next one starts at the same x: far_x after
\* an even row, 0 after an odd one
LawnMower(plan, cols, far_x) ==
    \A i \in 1 .. Len(plan) - 1 :
        (RowOf(i, cols) # RowOf(i + 1, cols)) =>
            /\ FEq(plan[i].x, plan[i + 1].x)
            /\ FEq(plan[i + 1].x, IF RowOf(i, cols) % 2 = 0 THEN far_x ELSE Zero)

\* C3: for every pair of consecutive rows r and r + 1 the last waypoint of
\* row r and the first waypoint of row r + 1 have the same x:
\* scan_dimension_x after an even row, 0 after an odd row.
C3_LawnMower ==
    (Returned /\ ValidInput) => LawnMower(Plan, Cols, FromInt(ScanX))

\* plan, in rows of cols waypoints, is in flight order
FlightOrder(plan, cols, far_x) ==
    /\ FEq(plan[1].y, Zero)
    /\ \A i \in 1 .. Len(plan) - 1 :
          /\ FLe(plan[i].y, plan[i + 1].y)
          /\ (RowOf(i, cols) = RowOf(i + 1, cols)) =>
                /\ FEq(plan[i].y, plan[i + 1].y)
                /\ IF RowOf(i, cols) % 2 = 0
                   THEN FLt(plan[i].x, plan[i + 1].x)
                   ELSE FLt(plan[i + 1].x, plan[i].x)
          /\ (RowOf(i, cols) # RowOf(i + 1, cols)) =>
                FLt(plan[i].y, plan[i + 1].y)
    /\ \A i \in 1 .. Len(plan) :
          (ColOf(i, cols) = 0) =>
              FEq(plan[i].x, IF RowOf(i, cols) % 2 = 0 THEN Zero ELSE far_x)

\* C4: the sequence is in flight order: y never decreases along it and starts
\* at 0, the waypoints of a row are contiguous, x starts at 0 and strictly
\* increases inside every even row, starts at scan_dimension_x and strictly
\* decreases inside every odd row.
C4_FlightOrder ==
    (Returned /\ ValidInput) => FlightOrder(Plan, Cols, FromInt(ScanX))

\* the second row of plan is flown from far_x towards 0, the third from 0
SecondRowReversed(plan, cols, far_x) ==
    /\ Len(plan) >= 3 * cols
    /\ FEq(plan[cols + 1].x, far_x)
    /\ FLt(plan[cols + 2].x, plan[cols + 1].x)
    /\ FLt(plan[2 * cols + 1].x, plan[2 * cols + 2].x)

\* a valid plan of at least three rows of at least three waypoints, whose
\* second row is flown from scan_dimension_x towards 0
C4_Witness ==
    /\ Returned /\ ValidInput
    /\ IntervalsX >= 2 /\ IntervalsY >= 2
    /\ SecondRowReversed(Plan, Cols, FromInt(ScanX))

\* every waypoint of plan has the given z and speed
AllAt(plan, z, speed) ==
    \A i \in 1 .. Len(plan) : plan[i].z = z /\ plan[i].speed = speed

\* C5: every waypoint of a returned plan has z = dataset_spec.height and
\* speed = compute_speed_during_photo_capture(camera, dataset_spec) with 1 px
\* of allowed movement, so the z and the speed plot_photo_plan reads from the
\* first waypoint are those of every waypoint.
C5_ConstantHeightAndSpeed ==
    /\ Returned =>
          AllAt(Plan, dataset_spec.height,
                compute_speed_during_photo_capture(camera, dataset_spec, 1))
    /\ (figure.status = "returned") =>
          AllAt(Plan, figure.z_coord, figure.capture_speed)

\* a plan of several waypoints has been plotted, its height and speed differ
C5_Witness ==
    /\ Returned
    /\ figure.status = "returned"
    /\ Len(Plan) >= 6
    /\ Plan[Len(Plan)].z = figure.z_coord
    /\ figure.z_coord # figure.capture_speed

\* plan is one line of lines waypoints: across is 0 for each, along differs
\* from one to the other
OneLine(plan, lines, across, along) ==
    /\ Len(plan) = lines
    /\ \A i, j \in 1 .. Len(plan) :
          /\ FEq(plan[i][across], Zero)
          /\ (i # j) => ~FEq(plan[i][along], plan[j][along])

\* C6: an axis of scan dimension 0 gets exactly one grid line, at coordinate
\* 0 for every waypoint; with both dimensions 0 the plan is the one waypoint
\* (0, 0, height, speed).
C6_DegenerateDimensions ==
    /\ (Returned /\ ValidInput /\ ScanX = 0) =>
          OneLine(Plan, IntervalsY + 1, "x", "y")
    /\ (Returned /\ ValidInput /\ ScanY = 0) =>
          OneLine(Plan, IntervalsX + 1, "y", "x")
    /\ (Returned /\ ScanX = 0 /\ ScanY = 0) =>
          Plan = <<Waypoint(Zero, Zero, dataset_spec.height,
                            compute_speed_during_photo_capture(
                                camera, dataset_spec, 1))>>

\* a valid scan of width 0 planned as one column of several waypoints
C6_Witness ==
    /\ Returned /\ ValidInput
    /\ ScanX = 0 /\ ScanY > 0
    /\ Len(Plan) >= 2
    /\ FEq(Plan[Len(Plan)].x, Zero)

\* with more than one line, the spacing actual is positive and at most ideal
NeverLooser(lines, actual, ideal) ==
    (lines > 1) => (FLt(Zero, actual) /\ FLe(actual, ideal))

\* C7: on each axis with more than one grid line the actual spacing
\* scan_dimension / (lines - 1) is greater than 0 and at most the ideal
\* spacing of compute_distance_between_images.
C7_NeverLooser ==
    (Returned /\ ValidInput) =>
        /\ NeverLooser(Cols, actual_distance(ScanX, Cols), IdealDistance[1])
        /\ NeverLooser(Rows, actual_distance(ScanY, Rows), IdealDistance[2])

\* C8: project_world_point_to_image never returns for a point with Z = 0.
C8_ZeroDepthRejected == (projection.status = "returned") => (point.Z # 0)

\* overlap >= 1 with a positive scan_dimension_x, or sidelap >= 1 with a
\* positive scan_dimension_y
InvalidRatioUsed ==
    \/ FLe(FromInt(1), dataset_spec.overlap) /\ ScanX > 0
    \/ FLe(FromInt(1), dataset_spec.sidelap) /\ ScanY > 0

\* a waypoint of finite x and y inside [0, far_x] x [0, far_y]
InRange(w, far_x, far_y) ==
    /\ IsFinite(w.x) /\ FLe(Zero, w.x) /\ FLe(w.x, far_x)
    /\ IsFinite(w.y) /\ FLe(Zero, w.y) /\ FLe(w.y, far_y)

\* plan holds a waypoint, and one that is not finite and in range
Nonsensical(plan, far_x, far_y) ==
    /\ plan # << >>
    /\ \E i \in 1 .. Len(plan) : ~InRange(plan[i], far_x, far_y)

\* C9: with overlap >= 1 or sidelap >= 1 on an axis of positive scan
\* dimension the call raises, or returns a plan with a negative or infinite
\* coordinate; it returns neither an empty plan nor a plan whose waypoints
\* are all finite and in range.
C9_InvalidRatioNotSilent ==
    (InvalidRatioUsed /\ photo_plan # NotCalled) =>
        \/ photo_plan.status = "raised"
        \/ Nonsensical(Plan, FromInt(ScanX), FromInt(ScanY))

\* the x of the second row of plan are those of the first row in reverse
RowsMirrored(plan, cols) ==
    \A i \in 1 .. cols : FEq(plan[cols + i].x, plan[cols + 1 - i].x)

\* C10: for every valid input the x-coordinates of an odd row are exactly
\* those of an even row in reverse order.
C10_RowsMirrored ==
    (Returned /\ ValidInput /\ IntervalsY > 0) => RowsMirrored(Plan, Cols)

====
